---- MODULE Spec2Model ----
(***************************************************************************)
(* A model of DevSeeder's partial data copy (sync.go): SyncPartialData     *)
(* seeds row-id sets from the requested tables, closes them over the       *)
(* non-nullable child -> parent foreign keys with a work queue, orders the *)
(* tables that have rows with partialTopoSort and copies them, table by    *)
(* table, from the source (prod) to the destination (dev) database.        *)
(***************************************************************************)
EXTENDS Integers, Sequences, FiniteSets, TLC

\* ------------------------------------------------------------------ bounds
\* every source table holds the rows with ids 1..MaxId
MaxId == 2
\* the relationship list holds at most MaxFks foreign keys of any shape,
MaxFks == 1
\* or at most MaxHardFks of them when all are not nullable and on the id of another table
MaxHardFks == 3
\* partialTopoSort alone is given at most MaxTopoFks foreign keys
MaxTopoFks == 3

\* SQL NULL in a foreign-key column (row ids are positive)
NULL == 0

Tables == {"a", "b", "c"}
Ids == 1..MaxId
Limits == 0..MaxId

\* ----------------------------------------------------------------- helpers
Range(s) == {s[i] : i \in DOMAIN s}

\* every order in which a Go map range can visit the keys S
Perms(S) == {s \in [1..Cardinality(S) -> S] : \A i, j \in DOMAIN s : s[i] = s[j] => i = j}

\* ------------------------------------------------------------------- state
VARIABLES
    allFks,            \* []ForeignKey, as FetchAllForeignKeys returned it
    requestedTables,   \* map[string]int: table -> row limit
    resetTables,       \* bool
    prodDB,            \* source: table -> id -> column -> value
    devStart,          \* the destination as the run found it
    devDB,             \* destination: table -> set of ids of the rows it holds
    pc,                \* position in SyncPartialData
    rowSets,           \* map[string]map[int64]bool
    queue,             \* []string
    enqueued,          \* map[string]bool
    childTable,        \* the table taken from the queue ("" outside the edge loop)
    edgeIdx,           \* position of the edge loop in childToParents[childTable]
    tablesNeedingCopy, \* []string
    sorted,            \* []string, the copy order
    copyIdx,           \* position of the copy loop in sorted
    err,               \* "" or the step whose error SyncPartialData returned
    devLog,            \* the statements executed on devDB so far
    enqueues,          \* number of appends to queue so far
    mainPc,            \* position in main
    warnings,          \* the warnings main has logged
    exitStatus,        \* "" while main runs, then "ok" (return) or "fatal" (log.Fatalf)
    run                \* 1 in the first run of the program, 2 in the second

vars == <<allFks, requestedTables, resetTables, prodDB, devStart, devDB, pc, rowSets, queue,
          enqueued, childTable, edgeIdx, tablesNeedingCopy, sorted, copyIdx, err,
          devLog, enqueues, mainPc, warnings, exitStatus, run>>

inputs == <<allFks, requestedTables, resetTables, prodDB>>

\* what the steps of SyncPartialData leave alone: main's position and log
driver == <<mainPc, warnings, exitStatus, run>>

\* ------------------------------------------------------------- fks.go types
ForeignKey(from, fromCol, to, toCol, nullable) ==
    [FromTable |-> from, FromColumn |-> fromCol, ToTable |-> to,
     ToColumn |-> toCol, IsNullable |-> nullable]

FkEdge(fk) ==
    [ParentTable |-> fk.ToTable, ParentColumn |-> fk.ToColumn,
     ChildColumn |-> fk.FromColumn]

\* --------------------------------------------------- step 1: the adjacency
\* (mutant) nullable columns are not skipped
SkippedInAdjacency_SelfOnly(fk) == fk.FromTable = fk.ToTable

\* (mutant) self references are not skipped
SkippedInAdjacency_NullableOnly(fk) == fk.IsNullable

\* the two `continue`s of the adjacency loop: self references, nullable columns
SkippedInAdjacency(fk) == fk.FromTable = fk.ToTable \/ fk.IsNullable

\* childToParents[child] (nil, the empty slice, for a table without entry)
childToParents(fks, child) ==
    LET kept == SelectSeq(fks, LAMBDA fk : ~SkippedInAdjacency(fk) /\ fk.FromTable = child)
    IN  [i \in 1..Len(kept) |-> FkEdge(kept[i])]

\* --------------------------------------------------- step 2: the row sets
InitRowSets(fks, requested) ==
    [t \in {fks[i].FromTable : i \in DOMAIN fks} \cup {fks[i].ToTable : i \in DOMAIN fks}
           \cup DOMAIN requested |-> {}]

\* ------------------------------------------------------- the source queries
\* (mutant) the query has no LIMIT
fetchSomeIDs_NoLimit(db, table, limit) == DOMAIN db[table]

\* SELECT id FROM table ORDER BY id LIMIT limit
fetchSomeIDs(db, table, limit) ==
    {id \in DOMAIN db[table] : Cardinality({j \in DOMAIN db[table] : j < id}) < limit}

\* SELECT DISTINCT col FROM child WHERE id IN (childIDs) AND col IS NOT NULL
fetchReferencedParentIDs(db, child, edge, childIDs) ==
    IF childIDs = {} THEN {}
    ELSE {db[child][id][edge.ChildColumn] : id \in childIDs \cap DOMAIN db[child]} \ {NULL}

\* (mutant) the rows the destination held at the start are not fetched again
fetchRowsByIDs_SkipsCopied(db, table, idSet) == (idSet \cap DOMAIN db[table]) \ devStart[table]

\* SELECT * FROM table WHERE id IN (idSet): the ids of the rows returned
fetchRowsByIDs(db, table, idSet) == idSet \cap DOMAIN db[table]

\* a TRUNCATE TABLE or INSERT INTO statement sent to devDB, and whether it succeeded
Statement(op, table, ok) == [op |-> op, table |-> table, ok |-> ok]

\* ------------------------------------------------------ partialTopoSort
\* the condition under which a relationship is appended to depMap
TopoDependency(fk, neededSet) ==
    /\ fk.FromTable # fk.ToTable
    /\ fk.FromTable \in neededSet /\ fk.ToTable \in neededSet /\ ~fk.IsNullable

\* (mutant) the relationship is recorded under the parent, not under the child
depMap_Reversed(fks, neededTables) ==
    [t \in Range(neededTables) |->
        LET kept == SelectSeq(fks, LAMBDA fk :
                        TopoDependency(fk, Range(neededTables)) /\ fk.ToTable = t)
        IN  [i \in 1..Len(kept) |-> kept[i].FromTable]]

\* depMap[table]: one entry of the parent per relationship kept
depMap(fks, neededTables) ==
    [t \in Range(neededTables) |->
        LET kept == SelectSeq(fks, LAMBDA fk :
                        TopoDependency(fk, Range(neededTables)) /\ fk.FromTable = t)
        IN  [i \in 1..Len(kept) |-> kept[i].ToTable]]

\* (mutant) the in-degrees are left at their initial 0
inDegreeOf_Unset(dep) == [t \in DOMAIN dep |-> 0]

\* inDegree[table]: incremented once per entry of depMap[table]
inDegreeOf(dep) == [t \in DOMAIN dep |-> Len(dep[t])]

\* the children whose in-degree the loop over depMap decrements for `cur`
Dependents(dep, cur) == {child \in DOMAIN dep : cur \in Range(dep[child])}

\* the `for len(queue) > 0` loop: every value of `sorted` it can end with (the
\* range over the map depMap appends the children that reach 0 in any order)
RECURSIVE KahnLoop(_, _, _, _)
KahnLoop(dep, inDegree, q, srt) ==
    IF q = <<>> THEN {srt}
    ELSE LET cur == Head(q)
             hit == Dependents(dep, cur)
             deg == [t \in DOMAIN inDegree |->
                        IF t \in hit THEN inDegree[t] - 1 ELSE inDegree[t]]
             ready == {c \in hit : deg[c] = 0}
         IN  UNION {KahnLoop(dep, deg, Tail(q) \o p, Append(srt, cur)) : p \in Perms(ready)}

\* (mutant) the length of sorted is not compared with that of neededTables
partialTopoSort_Unchecked(fks, neededTables) ==
    LET dep == depMap(fks, neededTables)
        inDegree == inDegreeOf(dep)
        starts == Perms({t \in DOMAIN inDegree : inDegree[t] = 0})
    IN  {[sorted |-> s, error |-> FALSE] :
            s \in UNION {KahnLoop(dep, inDegree, q, <<>>) : q \in starts}}

\* every result partialTopoSort can return: (sorted, nil) or (nil, error)
partialTopoSort(fks, neededTables) ==
    LET dep == depMap(fks, neededTables)
        inDegree == inDegreeOf(dep)
        starts == Perms({t \in DOMAIN inDegree : inDegree[t] = 0})
        ends == UNION {KahnLoop(dep, inDegree, q, <<>>) : q \in starts}
    IN  {IF Len(s) # Len(neededTables) THEN [sorted |-> <<>>, error |-> TRUE]
                                       ELSE [sorted |-> s, error |-> FALSE] : s \in ends}

\* --------------------------------------------------------- SyncPartialData
\* (mutant) the queue starts with every table of rowSets, not the requested ones
Seed_QueuesEveryTable ==
    /\ pc = "seed"
    /\ \/ /\ rowSets' = [t \in DOMAIN rowSets |->
                            IF t \in DOMAIN requestedTables
                            THEN fetchSomeIDs(prodDB, t, requestedTables[t]) ELSE {}]
          /\ \E q \in Perms(DOMAIN rowSets) : queue' = q
          /\ enqueued' = [t \in DOMAIN rowSets |-> TRUE]
          /\ enqueues' = Cardinality(DOMAIN rowSets)
          /\ pc' = "bfs"
          /\ err' = err
       \/ /\ DOMAIN requestedTables # {}
          /\ pc' = "done"
          /\ err' = "fetchSomeIDs"
          /\ UNCHANGED <<rowSets, queue, enqueued, enqueues>>
    /\ UNCHANGED <<inputs, driver, devStart, devDB, childTable, edgeIdx, tablesNeedingCopy, sorted,
                   copyIdx, devLog>>

\* step 3 and the start of step 4: seed the requested tables, queue them
Seed ==
    /\ pc = "seed"
    /\ \/ /\ rowSets' = [t \in DOMAIN rowSets |->
                            IF t \in DOMAIN requestedTables
                            THEN fetchSomeIDs(prodDB, t, requestedTables[t]) ELSE {}]
          /\ \E q \in Perms(DOMAIN requestedTables) : queue' = q
          /\ enqueued' = [t \in DOMAIN rowSets |-> t \in DOMAIN requestedTables]
          /\ enqueues' = Cardinality(DOMAIN requestedTables)
          /\ pc' = "bfs"
          /\ err' = err
       \/ /\ DOMAIN requestedTables # {}          \* a fetchSomeIDs query fails
          /\ pc' = "done"
          /\ err' = "fetchSomeIDs"
          /\ UNCHANGED <<rowSets, queue, enqueued, enqueues>>
    /\ UNCHANGED <<inputs, driver, devStart, devDB, childTable, edgeIdx, tablesNeedingCopy, sorted,
                   copyIdx, devLog>>

\* (mutant) the head of the queue is read and not removed
Dequeue_KeepsHead ==
    /\ pc = "bfs"
    /\ queue # <<>>
    /\ LET child == Head(queue)
           skip == rowSets[child] = {} \/ childToParents(allFks, child) = <<>>
       IN  /\ queue' = queue
           /\ enqueued' = [enqueued EXCEPT ![child] = FALSE]
           /\ pc' = IF skip THEN "bfs" ELSE "edges"
           /\ childTable' = IF skip THEN "" ELSE child
           /\ edgeIdx' = IF skip THEN 0 ELSE 1
    /\ UNCHANGED <<inputs, driver, devStart, devDB, rowSets, tablesNeedingCopy, sorted, copyIdx, err,
                   devLog, enqueues>>

\* (mutant) the enqueued mark of the table taken from the queue is left set
Dequeue_KeepsMark ==
    /\ pc = "bfs"
    /\ queue # <<>>
    /\ LET child == Head(queue)
           skip == rowSets[child] = {} \/ childToParents(allFks, child) = <<>>
       IN  /\ queue' = Tail(queue)
           /\ enqueued' = enqueued
           /\ pc' = IF skip THEN "bfs" ELSE "edges"
           /\ childTable' = IF skip THEN "" ELSE child
           /\ edgeIdx' = IF skip THEN 0 ELSE 1
    /\ UNCHANGED <<inputs, driver, devStart, devDB, rowSets, tablesNeedingCopy, sorted, copyIdx, err,
                   devLog, enqueues>>

\* the head of the `for len(queue) > 0` loop, up to the edge loop
Dequeue ==
    /\ pc = "bfs"
    /\ queue # <<>>
    /\ LET child == Head(queue)
           skip == rowSets[child] = {} \/ childToParents(allFks, child) = <<>>
       IN  /\ queue' = Tail(queue)
           /\ enqueued' = [enqueued EXCEPT ![child] = FALSE]
           /\ pc' = IF skip THEN "bfs" ELSE "edges"
           /\ childTable' = IF skip THEN "" ELSE child
           /\ edgeIdx' = IF skip THEN 0 ELSE 1
    /\ UNCHANGED <<inputs, driver, devStart, devDB, rowSets, tablesNeedingCopy, sorted, copyIdx, err,
                   devLog, enqueues>>

\* (mutant) the parent is queued whenever it is not in the queue, changed or not
ExpandEdge_AlwaysQueues ==
    /\ pc = "edges"
    /\ LET edges == childToParents(allFks, childTable)
           edge == edges[edgeIdx]
           parent == edge.ParentTable
           newParentIDs == fetchReferencedParentIDs(prodDB, childTable, edge,
                                                    rowSets[childTable])
           last == edgeIdx = Len(edges)
       IN  \/ /\ rowSets' = [rowSets EXCEPT ![parent] = @ \cup newParentIDs]
              /\ IF ~enqueued[parent]
                 THEN /\ queue' = Append(queue, parent)
                      /\ enqueued' = [enqueued EXCEPT ![parent] = TRUE]
                      /\ enqueues' = enqueues + 1
                 ELSE UNCHANGED <<queue, enqueued, enqueues>>
              /\ pc' = IF last THEN "bfs" ELSE "edges"
              /\ childTable' = IF last THEN "" ELSE childTable
              /\ edgeIdx' = IF last THEN 0 ELSE edgeIdx + 1
              /\ err' = err
           \/ /\ pc' = "done"
              /\ err' = "fetchReferencedParentIDs"
              /\ UNCHANGED <<rowSets, queue, enqueued, enqueues, childTable, edgeIdx>>
    /\ UNCHANGED <<inputs, driver, devStart, devDB, tablesNeedingCopy, sorted, copyIdx, devLog>>

\* (mutant) a parent is queued for its first ids only
ExpandEdge_QueuesOnce ==
    /\ pc = "edges"
    /\ LET edges == childToParents(allFks, childTable)
           edge == edges[edgeIdx]
           parent == edge.ParentTable
           newParentIDs == fetchReferencedParentIDs(prodDB, childTable, edge,
                                                    rowSets[childTable])
           changed == ~(newParentIDs \subseteq rowSets[parent])
           last == edgeIdx = Len(edges)
       IN  \/ /\ rowSets' = [rowSets EXCEPT ![parent] = @ \cup newParentIDs]
              /\ IF changed /\ ~enqueued[parent] /\ rowSets[parent] = {}
                 THEN /\ queue' = Append(queue, parent)
                      /\ enqueued' = [enqueued EXCEPT ![parent] = TRUE]
                      /\ enqueues' = enqueues + 1
                 ELSE UNCHANGED <<queue, enqueued, enqueues>>
              /\ pc' = IF last THEN "bfs" ELSE "edges"
              /\ childTable' = IF last THEN "" ELSE childTable
              /\ edgeIdx' = IF last THEN 0 ELSE edgeIdx + 1
              /\ err' = err
           \/ /\ pc' = "done"
              /\ err' = "fetchReferencedParentIDs"
              /\ UNCHANGED <<rowSets, queue, enqueued, enqueues, childTable, edgeIdx>>
    /\ UNCHANGED <<inputs, driver, devStart, devDB, tablesNeedingCopy, sorted, copyIdx, devLog>>

\* (mutant) a changed parent is appended whether or not it is in the queue
ExpandEdge_IgnoresMark ==
    /\ pc = "edges"
    /\ LET edges == childToParents(allFks, childTable)
           edge == edges[edgeIdx]
           parent == edge.ParentTable
           newParentIDs == fetchReferencedParentIDs(prodDB, childTable, edge,
                                                    rowSets[childTable])
           changed == ~(newParentIDs \subseteq rowSets[parent])
           last == edgeIdx = Len(edges)
       IN  \/ /\ rowSets' = [rowSets EXCEPT ![parent] = @ \cup newParentIDs]
              /\ IF changed
                 THEN /\ queue' = Append(queue, parent)
                      /\ enqueued' = [enqueued EXCEPT ![parent] = TRUE]
                      /\ enqueues' = enqueues + 1
                 ELSE UNCHANGED <<queue, enqueued, enqueues>>
              /\ pc' = IF last THEN "bfs" ELSE "edges"
              /\ childTable' = IF last THEN "" ELSE childTable
              /\ edgeIdx' = IF last THEN 0 ELSE edgeIdx + 1
              /\ err' = err
           \/ /\ pc' = "done"
              /\ err' = "fetchReferencedParentIDs"
              /\ UNCHANGED <<rowSets, queue, enqueued, enqueues, childTable, edgeIdx>>
    /\ UNCHANGED <<inputs, driver, devStart, devDB, tablesNeedingCopy, sorted, copyIdx, devLog>>

\* one iteration of `for _, edge := range edges`
ExpandEdge ==
    /\ pc = "edges"
    /\ LET edges == childToParents(allFks, childTable)
           edge == edges[edgeIdx]
           parent == edge.ParentTable
           newParentIDs == fetchReferencedParentIDs(prodDB, childTable, edge,
                                                    rowSets[childTable])
           changed == ~(newParentIDs \subseteq rowSets[parent])
           last == edgeIdx = Len(edges)
       IN  \/ /\ rowSets' = [rowSets EXCEPT ![parent] = @ \cup newParentIDs]
              /\ IF changed /\ ~enqueued[parent]
                 THEN /\ queue' = Append(queue, parent)
                      /\ enqueued' = [enqueued EXCEPT ![parent] = TRUE]
                      /\ enqueues' = enqueues + 1
                 ELSE UNCHANGED <<queue, enqueued, enqueues>>
              /\ pc' = IF last THEN "bfs" ELSE "edges"
              /\ childTable' = IF last THEN "" ELSE childTable
              /\ edgeIdx' = IF last THEN 0 ELSE edgeIdx + 1
              /\ err' = err
           \/ /\ pc' = "done"                     \* the query fails
              /\ err' = "fetchReferencedParentIDs"
              /\ UNCHANGED <<rowSets, queue, enqueued, enqueues, childTable, edgeIdx>>
    /\ UNCHANGED <<inputs, driver, devStart, devDB, tablesNeedingCopy, sorted, copyIdx, devLog>>

\* (mutant) the destination is emptied as soon as the closure ends, before the sort
BuildNeeded_TruncatesFirst ==
    /\ pc = "bfs"
    /\ queue = <<>>
    /\ \E needed \in Perms({t \in DOMAIN rowSets : rowSets[t] # {}}) :
          /\ tablesNeedingCopy' = needed
          /\ devDB' = [t \in Tables |-> IF resetTables /\ t \in Range(needed) THEN {} ELSE devDB[t]]
          /\ devLog' = IF resetTables
                       THEN devLog \o [i \in 1..Len(needed) |-> Statement("truncate", needed[i], TRUE)]
                       ELSE devLog
    /\ pc' = "sort"
    /\ UNCHANGED <<inputs, driver, devStart, rowSets, queue, enqueued, childTable, edgeIdx, sorted,
                   copyIdx, err, enqueues>>

\* (mutant) every table of rowSets is listed, with or without row ids
BuildNeeded_AllTables ==
    /\ pc = "bfs"
    /\ queue = <<>>
    /\ \E needed \in Perms(DOMAIN rowSets) : tablesNeedingCopy' = needed
    /\ pc' = "sort"
    /\ UNCHANGED <<inputs, driver, devStart, devDB, rowSets, queue, enqueued, childTable, edgeIdx, sorted,
                   copyIdx, err, devLog, enqueues>>

\* step 5: the tables that have row ids, in the order of a range over the map
BuildNeeded ==
    /\ pc = "bfs"
    /\ queue = <<>>
    /\ \E needed \in Perms({t \in DOMAIN rowSets : rowSets[t] # {}}) :
          tablesNeedingCopy' = needed
    /\ pc' = "sort"
    /\ UNCHANGED <<inputs, driver, devStart, devDB, rowSets, queue, enqueued, childTable, edgeIdx, sorted,
                   copyIdx, err, devLog, enqueues>>

\* step 6: the topological sort (tablesNeedingCopy is not read after the call)
TopoSort ==
    /\ pc = "sort"
    /\ \E res \in partialTopoSort(allFks, tablesNeedingCopy) :
          /\ sorted' = res.sorted
          /\ err' = IF res.error THEN "topoSort" ELSE err
          /\ pc' = IF res.error \/ res.sorted = <<>> THEN "done" ELSE "copy"
          /\ copyIdx' = IF res.error THEN 0 ELSE 1
    /\ tablesNeedingCopy' = <<>>
    /\ UNCHANGED <<inputs, driver, devStart, devDB, rowSets, queue, enqueued, childTable, edgeIdx,
                   devLog, enqueues>>

\* (mutant) a failing statement is recorded and the loop goes on to the next table
CopyTable_Continues ==
    /\ pc = "copy"
    /\ LET table == sorted[copyIdx]
           idSet == rowSets[table]
           last == copyIdx = Len(sorted)
           truncated == IF resetTables THEN [devDB EXCEPT ![table] = {}] ELSE devDB
           logged == IF resetTables THEN Append(devLog, Statement("truncate", table, TRUE))
                                    ELSE devLog
           rowsData == fetchRowsByIDs(prodDB, table, idSet)
       IN  /\ pc' = IF last THEN "done" ELSE "copy"
           /\ copyIdx' = copyIdx + 1
           /\ \/ /\ idSet = {}
                 /\ UNCHANGED <<devDB, devLog, err>>
              \/ /\ idSet # {} /\ resetTables
                 /\ err' = "truncate"
                 /\ devLog' = Append(devLog, Statement("truncate", table, FALSE))
                 /\ UNCHANGED devDB
              \/ /\ idSet # {}
                 /\ err' = "fetchRowsByIDs"
                 /\ devDB' = truncated /\ devLog' = logged
              \/ /\ idSet # {} /\ rowsData # {}
                 /\ err' = "insertRows"
                 /\ devDB' = truncated
                 /\ devLog' = Append(logged, Statement("insert", table, FALSE))
              \/ /\ idSet # {}
                 /\ truncated[table] \cap rowsData = {}
                 /\ devDB' = [truncated EXCEPT ![table] = @ \cup rowsData]
                 /\ devLog' = IF rowsData = {} THEN logged
                              ELSE Append(logged, Statement("insert", table, TRUE))
                 /\ err' = err
    /\ UNCHANGED <<inputs, driver, devStart, rowSets, queue, enqueued, childTable, edgeIdx,
                   tablesNeedingCopy, sorted, enqueues>>

\* (mutant) the table is truncated whatever resetTables is
CopyTable_AlwaysTruncates ==
    /\ pc = "copy"
    /\ LET table == sorted[copyIdx]
           idSet == rowSets[table]
           last == copyIdx = Len(sorted)
           truncated == [devDB EXCEPT ![table] = {}]
           logged == Append(devLog, Statement("truncate", table, TRUE))
           rowsData == fetchRowsByIDs(prodDB, table, idSet)
       IN  \/ /\ idSet = {}                       \* continue
              /\ pc' = IF last THEN "done" ELSE "copy"
              /\ copyIdx' = copyIdx + 1
              /\ UNCHANGED <<devDB, devLog, err>>
           \/ /\ idSet # {}                       \* truncateTable fails
              /\ pc' = "done" /\ err' = "truncate"
              /\ devLog' = Append(devLog, Statement("truncate", table, FALSE))
              /\ UNCHANGED <<devDB, copyIdx>>
           \/ /\ idSet # {}                       \* fetchRowsByIDs fails
              /\ pc' = "done" /\ err' = "fetchRowsByIDs"
              /\ devDB' = truncated /\ devLog' = logged
              /\ UNCHANGED copyIdx
           \/ /\ idSet # {} /\ rowsData # {}      \* insertRows fails
              /\ pc' = "done" /\ err' = "insertRows"
              /\ devDB' = truncated
              /\ devLog' = Append(logged, Statement("insert", table, FALSE))
              /\ UNCHANGED copyIdx
           \/ /\ idSet # {}                       \* the table is copied
              /\ truncated[table] \cap rowsData = {}      \* no duplicate key
              /\ devDB' = [truncated EXCEPT ![table] = @ \cup rowsData]
              /\ devLog' = IF rowsData = {} THEN logged
                           ELSE Append(logged, Statement("insert", table, TRUE))
              /\ pc' = IF last THEN "done" ELSE "copy"
              /\ copyIdx' = copyIdx + 1
              /\ err' = err
    /\ UNCHANGED <<inputs, driver, devStart, rowSets, queue, enqueued, childTable, edgeIdx,
                   tablesNeedingCopy, sorted, enqueues>>

\* one iteration of `for _, table := range sorted`: truncate, fetch, insert
CopyTable ==
    /\ pc = "copy"
    /\ LET table == sorted[copyIdx]
           idSet == rowSets[table]
           last == copyIdx = Len(sorted)
           truncated == IF resetTables THEN [devDB EXCEPT ![table] = {}] ELSE devDB
           logged == IF resetTables THEN Append(devLog, Statement("truncate", table, TRUE))
                                    ELSE devLog
           rowsData == fetchRowsByIDs(prodDB, table, idSet)
       IN  \/ /\ idSet = {}                       \* continue
              /\ pc' = IF last THEN "done" ELSE "copy"
              /\ copyIdx' = copyIdx + 1
              /\ UNCHANGED <<devDB, devLog, err>>
           \/ /\ idSet # {} /\ resetTables        \* truncateTable fails
              /\ pc' = "done" /\ err' = "truncate"
              /\ devLog' = Append(devLog, Statement("truncate", table, FALSE))
              /\ UNCHANGED <<devDB, copyIdx>>
           \/ /\ idSet # {}                       \* fetchRowsByIDs fails
              /\ pc' = "done" /\ err' = "fetchRowsByIDs"
              /\ devDB' = truncated /\ devLog' = logged
              /\ UNCHANGED copyIdx
           \/ /\ idSet # {} /\ rowsData # {}      \* insertRows fails
              /\ pc' = "done" /\ err' = "insertRows"
              /\ devDB' = truncated
              /\ devLog' = Append(logged, Statement("insert", table, FALSE))
              /\ UNCHANGED copyIdx
           \/ /\ idSet # {}                       \* the table is copied
              /\ truncated[table] \cap rowsData = {}      \* no duplicate key
              /\ devDB' = [truncated EXCEPT ![table] = @ \cup rowsData]
              /\ devLog' = IF rowsData = {} THEN logged
                           ELSE Append(logged, Statement("insert", table, TRUE))
              /\ pc' = IF last THEN "done" ELSE "copy"
              /\ copyIdx' = copyIdx + 1
              /\ err' = err
    /\ UNCHANGED <<inputs, driver, devStart, rowSets, queue, enqueued, childTable, edgeIdx,
                   tablesNeedingCopy, sorted, enqueues>>

Next == Seed \/ Dequeue \/ ExpandEdge \/ BuildNeeded \/ TopoSort \/ CopyTable

\* ------------------------------------------------------------------ inputs
ColumnNames == <<"fk1", "fk2", "fk3", "fk4">>

\* how a foreign key can be declared: any child and parent table (the same
\* table included), not nullable on the parent's id or on its unique column
\* code, or nullable on the parent's id
FkShapes ==
    {<<from, to, toCol, nullable>> :
        from \in Tables, to \in Tables, toCol \in {"id", "code"}, nullable \in BOOLEAN}
    \ {s \in Tables \X Tables \X {"code"} \X {TRUE} : TRUE}

\* the plain ones: not nullable, on the id of another table
HardShapes == {s \in FkShapes : s[1] # s[2] /\ s[3] = "id" /\ ~s[4]}

\* the source, the destination and the requests treat the three tables alike, so
\* a list stands for its renamings: the first foreign key is one of table b to
\* table a or to b itself
Canonical(s) == Len(s) > 0 => s[1][1] = "b" /\ s[1][2] \in {"a", "b"}

\* a relationship list: each foreign key constrains a column of its own
FkList(s) == [i \in 1..Len(s) |-> ForeignKey(s[i][1], ColumnNames[i], s[i][2], s[i][3], s[i][4])]

\* up to MaxFks foreign keys of any shape, or up to MaxHardFks plain ones
\* between MaxHardFks different pairs of tables
FkLists ==
    {FkList(s) : s \in {s \in UNION {[1..n -> FkShapes] : n \in 0..MaxFks} : Canonical(s)}}
    \cup
    {FkList(s) : s \in {s \in UNION {[1..n -> HardShapes] : n \in 0..MaxHardFks} :
                            Canonical(s) /\ \A i, j \in DOMAIN s : s[i] = s[j] => i = j}}

\* how the rows of a child table refer to the parent's rows: row i to the
\* parent's i, every row to the parent's 1, row i to the parent's next one
Patterns == {"same", "first", "next"}

Refer(pattern, id) ==
    IF pattern = "same" THEN id ELSE IF pattern = "first" THEN 1 ELSE (id % MaxId) + 1

\* the unique non-key column `code` of every table
Code(id) == (id % MaxId) + 1

\* the source: every table holds the rows 1..MaxId; a not-nullable foreign-key
\* column holds a reference in every row, a nullable one NULL in the last row
Source(fks, pattern) ==
    [t \in Tables |-> [id \in Ids |->
        [col \in {"code"} \cup {ColumnNames[i] : i \in 1..Len(fks)} |->
            IF col = "code" THEN Code(id)
            ELSE LET fk == CHOOSE f \in Range(fks) : f.FromColumn = col
                 IN  IF fk.FromTable # t THEN NULL
                     ELSE IF fk.IsNullable /\ id = MaxId THEN NULL
                     ELSE Refer(pattern, id)]]]

\* any set of tables, with one limit
Requests == {[t \in S |-> limit] : S \in SUBSET Tables, limit \in Limits}

Destinations == {[t \in Tables |-> {}], [t \in Tables |-> {1}]}

\* the call of SyncPartialData, on any input
InitSync ==
    /\ allFks \in FkLists
    /\ \E pattern \in Patterns : prodDB = Source(allFks, pattern)
    /\ requestedTables \in Requests
    /\ resetTables \in BOOLEAN
    /\ devDB \in Destinations
    /\ devStart = devDB
    /\ pc = "seed"
    /\ rowSets = InitRowSets(allFks, requestedTables)
    /\ queue = <<>>
    /\ enqueued = [t \in DOMAIN rowSets |-> FALSE]
    /\ childTable = ""
    /\ edgeIdx = 0
    /\ tablesNeedingCopy = <<>>
    /\ sorted = <<>>
    /\ copyIdx = 0
    /\ err = ""
    /\ devLog = <<>>
    /\ enqueues = 0

\* main is at its call of SyncPartialData
AtSyncCall ==
    /\ mainPc = "sync"
    /\ warnings = {}
    /\ exitStatus = ""
    /\ run = 1

Init == InitSync /\ AtSyncCall

Spec == Init /\ [][Next]_vars

\* ------------------------------------------------------ the closure alone
\* steps 3 and 4 on every input of Init; the destination and resetTables, which
\* these steps do not read, are fixed
InitClosure == Init /\ ~resetTables /\ \A t \in Tables : devDB[t] = {}

NextClosure == Seed \/ Dequeue \/ ExpandEdge

\* the run is one sequential call: while a step is possible, one is taken
FairClosure == InitClosure /\ [][NextClosure]_vars /\ WF_vars(NextClosure)

\* ------------------------------------------------------------------- main
\* SET foreign_key_checks = 0: a failure is logged and main goes on
DisableForeignKeyChecks ==
    /\ mainPc = "fkOff"
    /\ \/ warnings' = warnings
       \/ warnings' = warnings \cup {"cannot disable foreign_key_checks"}
    /\ mainPc' = "fetchFks"
    /\ UNCHANGED <<inputs, devStart, devDB, pc, rowSets, queue, enqueued, childTable, edgeIdx,
                   tablesNeedingCopy, sorted, copyIdx, err, devLog, enqueues, exitStatus, run>>

\* FetchAllForeignKeys: allFks is what it returns; its failure is fatal
FetchAllForeignKeys ==
    /\ mainPc = "fetchFks"
    /\ \/ mainPc' = "sync" /\ exitStatus' = exitStatus
       \/ mainPc' = "exit" /\ exitStatus' = "fatal"
    /\ UNCHANGED <<inputs, devStart, devDB, pc, rowSets, queue, enqueued, childTable, edgeIdx,
                   tablesNeedingCopy, sorted, copyIdx, err, devLog, enqueues, warnings, run>>

\* the steps of the call SyncPartialData(prodDB, devDB, allFks, cfg.Tables, cfg.ResetTables)
SyncCall == mainPc = "sync" /\ Next

\* the call has returned: its result is assigned to nothing; then
\* SET foreign_key_checks = 1, a failure of which is logged, and main returns
EnableForeignKeyChecks ==
    /\ mainPc = "sync" /\ pc = "done"
    /\ \/ warnings' = warnings
       \/ warnings' = warnings \cup {"cannot re-enable foreign_key_checks"}
    /\ mainPc' = "exit"
    /\ exitStatus' = "ok"
    /\ UNCHANGED <<inputs, devStart, devDB, pc, rowSets, queue, enqueued, childTable, edgeIdx,
                   tablesNeedingCopy, sorted, copyIdx, err, devLog, enqueues, run>>

InitMain ==
    /\ InitSync
    /\ mainPc = "fkOff"
    /\ warnings = {}
    /\ exitStatus = ""
    /\ run = 1

NextMain == DisableForeignKeyChecks \/ FetchAllForeignKeys \/ SyncCall \/ EnableForeignKeyChecks

SpecMain == InitMain /\ [][NextMain]_vars

\* ------------------------------------------------- the program run twice
\* after a run that succeeded, the program is started again with the same
\* answers, on the same source and on the destination the first run left
Rerun ==
    /\ pc = "done" /\ err = "" /\ run = 1
    /\ run' = 2
    /\ devStart' = devDB
    /\ pc' = "seed"
    /\ rowSets' = InitRowSets(allFks, requestedTables)
    /\ queue' = <<>>
    /\ enqueued' = [t \in DOMAIN rowSets |-> FALSE]
    /\ childTable' = ""
    /\ edgeIdx' = 0
    /\ tablesNeedingCopy' = <<>>
    /\ sorted' = <<>>
    /\ copyIdx' = 0
    /\ devLog' = <<>>
    /\ enqueues' = 0
    /\ UNCHANGED <<inputs, devDB, err, mainPc, warnings, exitStatus>>

InitTwice == Init /\ resetTables

NextTwice == Next \/ Rerun

SpecTwice == InitTwice /\ [][NextTwice]_vars

\* ------------------------------------------------- the order_items example
\* orders.customer_id -> customers.id and order_items.order_id -> orders.id, as
\* FetchAllForeignKeys can return them
ExampleFkLists ==
    LET oc == ForeignKey("orders", "customer_id", "customers", "id", FALSE)
        io == ForeignKey("order_items", "order_id", "orders", "id", FALSE)
    IN  {<<oc, io>>, <<io, oc>>}

\* order_items 10 and 11 of orders 100 and 101 of customer 5; with `more`, also
\* order_item 12 of order 102 of customer 6
ExampleSource(more) ==
    LET items == (10 :> [order_id |-> 100]) @@ (11 :> [order_id |-> 101])
        orders == (100 :> [customer_id |-> 5]) @@ (101 :> [customer_id |-> 5])
        customers == (5 :> [name |-> 1])
    IN  [order_items |-> IF more THEN items @@ (12 :> [order_id |-> 102]) ELSE items,
         orders      |-> IF more THEN orders @@ (102 :> [customer_id |-> 6]) ELSE orders,
         customers   |-> IF more THEN customers @@ (6 :> [name |-> 2]) ELSE customers]

\* the destination is empty or holds rows of an earlier copy
ExampleDestinations ==
    {[order_items |-> {}, orders |-> {}, customers |-> {}],
     [order_items |-> {12}, orders |-> {102}, customers |-> {6}]}

InitExample ==
    /\ allFks \in ExampleFkLists
    /\ \E more \in BOOLEAN : prodDB = ExampleSource(more)
    /\ requestedTables = [t \in {"order_items"} |-> 2]
    /\ resetTables \in BOOLEAN
    /\ devDB \in ExampleDestinations
    /\ devStart = devDB
    /\ pc = "seed"
    /\ rowSets = InitRowSets(allFks, requestedTables)
    /\ queue = <<>>
    /\ enqueued = [t \in DOMAIN rowSets |-> FALSE]
    /\ childTable = ""
    /\ edgeIdx = 0
    /\ tablesNeedingCopy = <<>>
    /\ sorted = <<>>
    /\ copyIdx = 0
    /\ err = ""
    /\ devLog = <<>>
    /\ enqueues = 0
    /\ AtSyncCall

SpecExample == InitExample /\ [][Next]_vars

\* ------------------------------------------------- partialTopoSort alone
\* steps 5 and 6 applied to any relationship list of up to MaxTopoFks foreign
\* keys and any set of tables that have row ids
TopoFkLists ==
    {FkList(s) : s \in {s \in UNION {[1..n -> {sh \in FkShapes : sh[3] = "id"}] :
                                        n \in 0..MaxTopoFks} : Canonical(s)}}

InitTopo ==
    /\ allFks \in TopoFkLists
    /\ prodDB = Source(allFks, "same")
    /\ rowSets \in [Tables -> {{}, {1}}]
    /\ requestedTables = [t \in {t \in Tables : rowSets[t] # {}} |-> 1]
    /\ resetTables = FALSE
    /\ devDB = [t \in Tables |-> {}]
    /\ devStart = devDB
    /\ pc = "bfs"
    /\ queue = <<>>
    /\ enqueued = [t \in Tables |-> FALSE]
    /\ childTable = ""
    /\ edgeIdx = 0
    /\ tablesNeedingCopy = <<>>
    /\ sorted = <<>>
    /\ copyIdx = 0
    /\ err = ""
    /\ devLog = <<>>
    /\ enqueues = Cardinality(DOMAIN requestedTables)
    /\ AtSyncCall

NextTopo == BuildNeeded \/ TopoSort

SpecTopo == InitTopo /\ [][NextTopo]_vars

\* ------------------------------------------------------------- vocabulary
\* the non-nullable, non-self-referencing foreign keys of a list
HardFks(fks) == {fk \in Range(fks) : ~fk.IsNullable /\ fk.FromTable # fk.ToTable}

\* their child -> parent edges between the tables of S
HardEdges(fks, S) ==
    {<<fk.FromTable, fk.ToTable>> : fk \in {f \in HardFks(fks) : f.FromTable \in S /\ f.ToTable \in S}}

RECURSIVE TransitiveClosure(_)
TransitiveClosure(E) ==
    LET more == E \cup {<<p[1][1], p[2][2]>> : p \in {p \in E \X E : p[1][2] = p[2][1]}}
    IN  IF more = E THEN E ELSE TransitiveClosure(more)

Cyclic(E) == \E e \in TransitiveClosure(E) : e[1] = e[2]

\* the tables that have row ids
NeededTables == {t \in DOMAIN rowSets : rowSets[t] # {}}

Pos(s, x) == CHOOSE i \in DOMAIN s : s[i] = x

\* the closure loop has ended with an empty queue
ClosureDone ==
    \/ pc = "bfs" /\ queue = <<>>
    \/ pc \in {"sort", "copy"}
    \/ pc = "done" /\ err \notin {"fetchSomeIDs", "fetchReferencedParentIDs"}

\* partialTopoSort has returned an order
Ordered == pc = "copy" \/ (pc = "done" /\ err \notin {"fetchSomeIDs", "fetchReferencedParentIDs", "topoSort"})

\* the rows the request seeds: the first rows, by id, of each requested table
SeedRows ==
    UNION {{<<t, id>> : id \in {i \in DOMAIN prodDB[t] :
                Cardinality({j \in DOMAIN prodDB[t] : j < i}) < requestedTables[t]}} :
           t \in DOMAIN requestedTables}

ColumnValue(t, id, col) == IF col = "id" THEN id ELSE prodDB[t][id][col]

\* the rows that row <<t, id>> refers to through the foreign keys of F
ReferencedRows(F, row) ==
    UNION {{<<fk.ToTable, p>> : p \in {q \in DOMAIN prodDB[fk.ToTable] :
                ColumnValue(fk.ToTable, q, fk.ToColumn) = prodDB[row[1]][row[2]][fk.FromColumn]}} :
           fk \in {f \in F : f.FromTable = row[1]}}

\* the rows reachable from the rows R by following foreign keys of F
RECURSIVE ReachableRows(_, _)
ReachableRows(F, R) ==
    LET more == R \cup UNION {ReferencedRows(F, row) : row \in R}
    IN  IF more = R THEN R ELSE ReachableRows(F, more)

IdsOf(R, t) == {row[2] : row \in {r \in R : r[1] = t}}

\* ------------------------------------------------------------------ claims

\* C1: for an acyclic graph of non-nullable, non-self-referencing foreign keys,
\* when the closure loop has finished, rowSets[T] is exactly the set of ids of
\* the rows of T reachable from the seeded rows through those foreign keys.
C1_ClosureExact ==
    (ClosureDone /\ ~Cyclic(HardEdges(allFks, Tables)))
        => \A t \in DOMAIN rowSets :
              rowSets[t] = IdsOf(ReachableRows(HardFks(allFks), SeedRows), t)

\* C2: whenever partialTopoSort returns an order without error, the parent of
\* every non-nullable, non-self-referencing foreign key whose two tables are in
\* the order comes strictly before the child.
C2_ParentsBeforeChildren ==
    Ordered =>
        \A fk \in HardFks(allFks) :
            fk.FromTable \in Range(sorted) /\ fk.ToTable \in Range(sorted)
                => Pos(sorted, fk.ToTable) < Pos(sorted, fk.FromTable)

\* an order of three tables was returned for a chain of two dependencies
C2_Witness ==
    /\ pc = "copy" /\ Len(sorted) = 3
    /\ \E f, g \in HardFks(allFks) :
          /\ f.ToTable = g.FromTable /\ f.FromTable # g.ToTable
          /\ Pos(sorted, g.ToTable) < Pos(sorted, f.ToTable)
          /\ Pos(sorted, f.ToTable) < Pos(sorted, f.FromTable)

\* C4: a cycle of non-nullable, non-self-referencing foreign keys among the
\* tables that need copying makes partialTopoSort and SyncPartialData return
\* an error; no order is returned and nothing is sent to the destination.
C4_CycleIsReported ==
    (pc \in {"copy", "done"} /\ ClosureDone /\ Cyclic(HardEdges(allFks, NeededTables)))
        => /\ pc = "done" /\ err = "topoSort"
           /\ sorted = <<>>
           /\ devLog = <<>> /\ devDB = devStart

\* the sort has reported a cycle among tables that have rows
C4_Witness ==
    /\ pc = "done" /\ err = "topoSort"
    /\ Cyclic(HardEdges(allFks, NeededTables))

\* C5: partialTopoSort reports an error only when there is a cycle: on an
\* acyclic set of dependencies among the needed tables it returns, without
\* error, an order that contains every needed table.
C5_ErrorOnlyOnCycle ==
    (pc \in {"copy", "done"} /\ ClosureDone /\ ~Cyclic(HardEdges(allFks, NeededTables)))
        => err # "topoSort" /\ Range(sorted) = NeededTables

\* the tables this run has inserted rows into
InsertedTables ==
    {devLog[i].table : i \in {j \in DOMAIN devLog : devLog[j].op = "insert" /\ devLog[j].ok}}

\* C3: with foreign keys on the parent's id and the destination tables of the
\* closure empty at the start or resetTables set, at every moment of the
\* transfer every row this run has inserted finds, for every non-nullable,
\* non-self-referencing foreign key of its table, the referenced parent row in
\* the destination.
C3_NoDanglingReference ==
    (/\ Ordered
     /\ \A fk \in Range(allFks) : fk.ToColumn = "id"
     /\ resetTables \/ \A t \in NeededTables : devStart[t] = {})
        => \A t \in InsertedTables : \A id \in devDB[t] :
              \A fk \in {f \in HardFks(allFks) : f.FromTable = t} :
                 \E p \in devDB[fk.ToTable] :
                    ColumnValue(fk.ToTable, p, fk.ToColumn) = prodDB[t][id][fk.FromColumn]

\* a chain of three tables has been copied over a destination that held rows
C3_Witness ==
    /\ pc = "done" /\ err = "" /\ resetTables
    /\ \A fk \in Range(allFks) : fk.ToColumn = "id"
    /\ \E t \in Tables : devStart[t] # {}
    /\ Cardinality(InsertedTables) = 3
    /\ \E f, g \in HardFks(allFks) : f.ToTable = g.FromTable /\ f.FromTable # g.ToTable

\* C7 as stated: on an acyclic graph the appends to the work queue number at
\* most (number of tables) x (number of non-nullable edges).
C7_EnqueueBound ==
    \/ enqueues <= Cardinality(DOMAIN rowSets) * Cardinality(HardFks(allFks))
    \/ Cyclic(HardEdges(allFks, Tables))

\* C7 as amended: on an acyclic graph the appends to the work queue number at
\* most (number of requested tables) + (number of tables) x (number of
\* non-nullable edges).
C7_EnqueueBoundWithRequests ==
    \/ enqueues <= Cardinality(DOMAIN requestedTables)
                      + Cardinality(DOMAIN rowSets) * Cardinality(HardFks(allFks))
    \/ Cyclic(HardEdges(allFks, Tables))

\* the closure of an acyclic graph has ended after two parents were queued again
C7_Witness ==
    /\ ClosureDone /\ pc = "bfs"
    /\ ~Cyclic(HardEdges(allFks, Tables))
    /\ HardFks(allFks) # {}
    /\ enqueues >= Cardinality(DOMAIN requestedTables) + 2

\* C10: a failing truncate, fetch or insert for the table at position k of the
\* copy order ends SyncPartialData with an error; no statement is sent for a
\* table after k, those tables are as the run found them, and the rows inserted
\* for the tables before k stay in the destination.
C10_FailureAbortsSchedule ==
    /\ err # "" => pc = "done"
    /\ (pc = "done" /\ err \in {"truncate", "fetchRowsByIDs", "insertRows"})
          => /\ copyIdx \in DOMAIN sorted
             /\ \A i \in DOMAIN devLog : devLog[i].table \in {sorted[j] : j \in 1..copyIdx}
             /\ \A j \in (copyIdx + 1)..Len(sorted) : devDB[sorted[j]] = devStart[sorted[j]]
             /\ \A j \in 1..(copyIdx - 1) :
                   /\ rowSets[sorted[j]] \cap DOMAIN prodDB[sorted[j]] \subseteq devDB[sorted[j]]
                   /\ sorted[j] \in InsertedTables

\* the insert of the second of three tables has failed after the first was copied
C10_Witness ==
    /\ pc = "done" /\ err = "insertRows"
    /\ copyIdx = 2 /\ Len(sorted) = 3
    /\ devDB[sorted[1]] # devStart[sorted[1]]

\* C6: the closure loop terminates, on every source and every foreign-key
\* graph, cyclic ones included: the queue becomes empty, or a failed query
\* ends the run.
C6_ClosureTerminates == <>(ClosureDone \/ pc = "done")

\* the closure of a cyclic graph has ended, after tables were queued again
C6_Witness ==
    /\ pc = "bfs" /\ queue = <<>>
    /\ Cyclic(HardEdges(allFks, Tables))
    /\ enqueues >= Cardinality(DOMAIN requestedTables) + 3

\* the tables reachable from the tables of the seeded rows through non-nullable,
\* non-self-referencing foreign keys (the seeded tables included)
HardReachableTables ==
    LET seeded == {row[1] : row \in SeedRows}
    IN  seeded \cup {e[2] : e \in {f \in TransitiveClosure(HardEdges(allFks, Tables)) :
                                      f[1] \in seeded}}

NotNullable(fks) == SelectSeq(fks, LAMBDA fk : ~fk.IsNullable)

\* C8: a nullable foreign key adds nothing to the closure and nothing to the
\* order: in a list that has nullable foreign keys, a table that non-nullable
\* foreign keys do not link to the seeded rows ends with an empty row set and
\* receives no statement, whatever the nullable columns hold, and
\* partialTopoSort returns what it returns for the list without its nullable
\* relationships.
C8_NullableIgnored ==
    (NotNullable(allFks) # allFks) =>
        /\ ClosureDone =>
              \A t \in DOMAIN rowSets \ HardReachableTables :
                  /\ rowSets[t] = {}
                  /\ t \notin Range(sorted)
                  /\ \A i \in DOMAIN devLog : devLog[i].table # t
        /\ pc = "sort" =>
              partialTopoSort(allFks, tablesNeedingCopy)
                  = partialTopoSort(NotNullable(allFks), tablesNeedingCopy)

\* a run has ended in which a copied row holds a value in a nullable foreign key
\* to a table that stayed empty and received no statement
C8_Witness ==
    /\ pc = "done" /\ err = ""
    /\ \E fk \in Range(allFks) :
          /\ fk.IsNullable /\ fk.FromTable # fk.ToTable
          /\ rowSets[fk.ToTable] = {}
          /\ fk.FromTable \in InsertedTables
          /\ \E id \in rowSets[fk.FromTable] : prodDB[fk.FromTable][id][fk.FromColumn] # NULL

\* the ids the closure loop derives from the row <<t, id>>: the values of the
\* child columns of the foreign keys of F
DerivedRows(F, row) ==
    {<<fk.ToTable, prodDB[row[1]][row[2]][fk.FromColumn]>> : fk \in {f \in F : f.FromTable = row[1]}}
        \ (Tables \X {NULL})

RECURSIVE DerivedClosure(_, _)
DerivedClosure(F, R) ==
    LET more == R \cup UNION {DerivedRows(F, row) : row \in R \cap (Tables \X Ids)}
    IN  IF more = R THEN R ELSE DerivedClosure(F, more)

NotSelf(fks) == SelectSeq(fks, LAMBDA fk : fk.FromTable # fk.ToTable)

\* C9: a self-referencing foreign key, nullable or not, adds no edge to the
\* dependency graph, adds no id to the row set of its own table and does not
\* make partialTopoSort fail: in a list that has self-references, the
\* adjacency, the row sets the closure ends with and the results of
\* partialTopoSort are those of the list without its self-references.
C9_SelfReferenceIgnored ==
    (NotSelf(allFks) # allFks) =>
        /\ pc = "seed" =>
              \A t \in Tables :
                  /\ \A i \in DOMAIN childToParents(allFks, t) :
                        childToParents(allFks, t)[i].ParentTable # t
                  /\ childToParents(allFks, t) = childToParents(NotSelf(allFks), t)
        /\ pc = "edges" => childToParents(allFks, childTable)[edgeIdx].ParentTable # childTable
        /\ (pc = "bfs" /\ queue = <<>>) =>
              \A t \in DOMAIN rowSets :
                  rowSets[t] = IdsOf(DerivedClosure({fk \in Range(NotSelf(allFks)) : ~fk.IsNullable},
                                                    SeedRows), t)
        /\ pc = "sort" =>
              partialTopoSort(allFks, tablesNeedingCopy)
                  = partialTopoSort(NotSelf(allFks), tablesNeedingCopy)

\* a table has been copied whose seeded row refers, through a not-nullable
\* foreign key of the table to itself, to a row that was not selected
C9_Witness ==
    /\ pc = "done" /\ err = ""
    /\ \E fk \in Range(allFks) :
          /\ fk.FromTable = fk.ToTable /\ ~fk.IsNullable
          /\ fk.FromTable \in Range(sorted)
          /\ \E id \in rowSets[fk.FromTable] :
                prodDB[fk.FromTable][id][fk.FromColumn] \notin rowSets[fk.FromTable]

\* C11: a failing query of the closure (fetchSomeIDs, fetchReferencedParentIDs)
\* or a failing sort ends SyncPartialData with an error and leaves the
\* destination as the run found it: until the closure and the sort have both
\* succeeded, no truncate and no insert has been sent.
C11_NoWriteBeforeSchedule ==
    /\ err \in {"fetchSomeIDs", "fetchReferencedParentIDs", "topoSort"} => pc = "done"
    /\ ~Ordered => devLog = <<>> /\ devDB = devStart
    /\ devLog # <<>> => pc \in {"copy", "done"} /\ sorted # <<>>

\* a query for referenced parent ids has failed in a run that was to reset a
\* destination holding rows
C11_Witness ==
    /\ pc = "done" /\ err = "fetchReferencedParentIDs"
    /\ resetTables
    /\ \E t \in DOMAIN rowSets : rowSets[t] # {} /\ devStart[t] # {}

\* C12: when the program is run twice with resetTables set, the same requested
\* tables and limits and an unchanged source, and both runs succeed, every
\* destination table holds after the second run what it held after the first.
C12_RerunIsIdempotent ==
    (run = 2 /\ pc = "done" /\ err = "") => \A t \in Tables : devDB[t] = devStart[t]

\* the second run has truncated and copied again a chain of three tables
C12_Witness ==
    /\ run = 2 /\ pc = "done" /\ err = ""
    /\ Cardinality(InsertedTables) = 3
    /\ \A t \in Tables : devDB[t] # {}
    /\ \E f, g \in HardFks(allFks) : f.ToTable = g.FromTable /\ f.FromTable # g.ToTable

\* C13: no failure of the closure, the ordering or the transfer is swallowed:
\* when SyncPartialData has ended with an error, the program ends with that
\* error as a fatal outcome; only a failure to toggle foreign_key_checks is
\* logged as a warning and followed by normal continuation.
C13_ErrorsAreFatal ==
    /\ (mainPc = "exit" /\ err # "") => exitStatus = "fatal"
    /\ (mainPc = "exit" /\ exitStatus = "ok") => err = ""

\* C14: with orders.customer_id -> customers.id and order_items.order_id ->
\* orders.id, request {order_items: 2}, order_items 10 and 11 of orders 100 and
\* 101, both of customer 5, the closure ends with order_items = {10, 11},
\* orders = {100, 101}, customers = {5}, and the tables are copied in the order
\* customers, orders, order_items.
C14_OrderItemsExample ==
    /\ ClosureDone =>
          rowSets = [order_items |-> {10, 11}, orders |-> {100, 101}, customers |-> {5}]
    /\ Ordered => sorted = <<"customers", "orders", "order_items">>
    /\ (pc = "done" /\ err = "") =>
          /\ SelectSeq(devLog, LAMBDA st : st.op = "insert")
                = << Statement("insert", "customers", TRUE), Statement("insert", "orders", TRUE),
                     Statement("insert", "order_items", TRUE) >>
          /\ {10, 11} \subseteq devDB["order_items"]
          /\ {100, 101} \subseteq devDB["orders"]
          /\ 5 \in devDB["customers"]

\* the example has been copied from a source that holds more rows than the request selects
C14_Witness ==
    /\ pc = "done" /\ err = ""
    /\ 12 \in DOMAIN prodDB["order_items"]
    /\ Len(devLog) >= 3
    /\ rowSets["customers"] = {5}

\* the row sets as a function of the source, the relationship list and the
\* request alone: the least sets that hold the seeded ids and, with a row, the
\* values of its columns under the foreign keys kept in the adjacency
ClosureOfInputs ==
    LET kept == {fk \in Range(allFks) : ~SkippedInAdjacency(fk)}
        rows == DerivedClosure(kept, SeedRows)
    IN  [t \in DOMAIN rowSets |-> IdsOf(rows, t)]

\* C15: the row sets the closure ends with are determined by the source, the
\* relationship list and the request: they are the same for every order of the
\* initial queue and every order in which edges are expanded. Only the copy
\* order differs between such runs, and every copy order has the parent of each
\* non-nullable edge before the child.
C15_OrderIndependentClosure ==
    /\ (pc = "bfs" /\ queue = <<>>) => rowSets = ClosureOfInputs
    /\ pc = "copy" =>
          /\ Range(sorted) = NeededTables
          /\ \A fk \in HardFks(allFks) :
                (rowSets[fk.FromTable] # {} /\ rowSets[fk.ToTable] # {})
                    => Pos(sorted, fk.ToTable) < Pos(sorted, fk.FromTable)

\* the closure has ended in a run that took a requested parent from the queue
\* before its requested child, and queued it again
C15_Witness ==
    /\ pc = "bfs" /\ queue = <<>>
    /\ \E fk \in HardFks(allFks) :
          /\ fk.FromTable \in DOMAIN requestedTables /\ fk.ToTable \in DOMAIN requestedTables
          /\ fk.ToColumn = "id"
    /\ enqueues > Cardinality(DOMAIN requestedTables)
    /\ Cardinality(DOMAIN requestedTables) >= 2

\* C16: no step removes an id from a row set, and after the initial queue a
\* table is appended to the queue only in a step in which its row set gained an
\* id it did not hold.
C16_GrowOnly ==
    [][/\ \A t \in DOMAIN rowSets : rowSets[t] \subseteq rowSets'[t]
       /\ (pc # "seed" /\ queue' # queue /\ Len(queue') >= Len(queue)) =>
             /\ Len(queue') = Len(queue) + 1
             /\ SubSeq(queue', 1, Len(queue)) = queue
             /\ rowSets'[queue'[Len(queue')]] \ rowSets[queue'[Len(queue')]] # {}]_vars

\* a table that was not requested is in the queue, for the ids a child added
C16_Witness ==
    /\ pc \in {"bfs", "edges"}
    /\ queue # <<>>
    /\ queue[Len(queue)] \notin DOMAIN requestedTables
    /\ rowSets[queue[Len(queue)]] # {}
    /\ \E t \in DOMAIN rowSets : Cardinality(rowSets[t]) >= 2

\* the ids the rows selected of `child` hold in the column of `edge`
Contribution(child, edge) == fetchReferencedParentIDs(prodDB, child, edge, rowSets[child])

\* `child` has an edge to `parent` and rows selected that refer to it
RefersTo(child, parent) ==
    \E i \in DOMAIN childToParents(allFks, child) :
        /\ childToParents(allFks, child)[i].ParentTable = parent
        /\ Contribution(child, childToParents(allFks, child)[i]) # {}

\* C17 as stated: a parent P referenced by several child tables is not taken
\* from the queue and expanded after one child's contribution and before the
\* first contribution of another child that holds rows referencing P. (No
\* table has been queued again while enqueues is the number of requested
\* tables: a requested table then out of the queue has been expanded, one in
\* the queue has not contributed yet.)
C17_ChildrenMergeFirst ==
    ~ \E P, c1, c2 \in DOMAIN rowSets :
        /\ pc = "edges" /\ childTable = P
        /\ c1 # c2 /\ c1 # P /\ c2 # P
        /\ enqueues = Cardinality(DOMAIN requestedTables)
        /\ c1 \in DOMAIN requestedTables /\ ~enqueued[c1] /\ RefersTo(c1, P)
        /\ c2 \in DOMAIN requestedTables /\ enqueued[c2] /\ RefersTo(c2, P)

\* C17 as amended: a parent can be expanded between the contributions of two
\* children, and a contribution that adds an id queues it again: a table that
\* is neither in the queue nor being expanded has, for its rows selected so
\* far, every referenced id in the row sets of its parents.
C17_ProcessedAgainAfterContribution ==
    pc \in {"bfs", "edges"} =>
        \A t \in DOMAIN rowSets :
            (~enqueued[t] /\ t # childTable) =>
                \A i \in DOMAIN childToParents(allFks, t) :
                    Contribution(t, childToParents(allFks, t)[i])
                        \subseteq rowSets[childToParents(allFks, t)[i].ParentTable]

\* a parent of two children is in the queue again, after it was expanded and a
\* child then added an id to its row set
C17_Witness ==
    /\ pc = "bfs"
    /\ \E P \in DOMAIN rowSets :
          /\ enqueued[P] /\ P \in DOMAIN requestedTables
          /\ childToParents(allFks, P) # <<>>
          /\ Cardinality(rowSets[P]) >= 2
          /\ Cardinality({c \in DOMAIN rowSets \ {P} : RefersTo(c, P)}) >= 2
    /\ enqueues > Cardinality(DOMAIN requestedTables)

\* the number of statements `op` this run has sent for table t
Sent(op, t) == Cardinality({i \in DOMAIN devLog : devLog[i].op = op /\ devLog[i].table = t})

\* C18: the list passed to partialTopoSort holds exactly the tables whose row
\* set is not empty when the closure ends, and the copy order is a permutation
\* of it; on a successful run every such table is copied exactly once, and no
\* table with an empty row set is truncated or inserted into.
C18_CopiesExactlyNeeded ==
    /\ pc = "sort" =>
          /\ Range(tablesNeedingCopy) = NeededTables
          /\ Len(tablesNeedingCopy) = Cardinality(NeededTables)
    /\ Ordered =>
          /\ Range(sorted) = NeededTables
          /\ Len(sorted) = Cardinality(NeededTables)
    /\ \A i \in DOMAIN devLog : rowSets[devLog[i].table] # {}
    /\ \A t \in DOMAIN rowSets : rowSets[t] = {} => devDB[t] = devStart[t]
    /\ (pc = "done" /\ err = "") =>
          \A t \in NeededTables :
              /\ Sent("insert", t) = 1
              /\ Sent("truncate", t) = IF resetTables THEN 1 ELSE 0
              /\ rowSets[t] \subseteq devDB[t]

\* a run with resetTables has succeeded and copied a table, and a table of the
\* row sets that ended empty still holds the rows it held
C18_Witness ==
    /\ pc = "done" /\ err = "" /\ resetTables
    /\ sorted # <<>>
    /\ \E t \in DOMAIN rowSets : rowSets[t] = {} /\ devStart[t] # {} /\ devDB[t] = devStart[t]

\* C19: without resetTables no destination table is ever truncated; with it a
\* table is truncated only if it is in the copy order, at most once, and before
\* its rows are inserted; with or without it, every destination table that is
\* not in the copy order is as the run found it.
C19_TruncateConfined ==
    /\ ~resetTables => \A i \in DOMAIN devLog : devLog[i].op # "truncate"
    /\ \A i \in DOMAIN devLog :
          devLog[i].op = "truncate" =>
              /\ devLog[i].table \in Range(sorted)
              /\ Sent("truncate", devLog[i].table) = 1
              /\ \A j \in 1..(i - 1) : devLog[j].table # devLog[i].table
    /\ resetTables =>
          \A j \in DOMAIN devLog :
              devLog[j].op = "insert" =>
                  j > 1 /\ devLog[j - 1] = Statement("truncate", devLog[j].table, TRUE)
    /\ \A t \in Tables \ Range(sorted) : devDB[t] = devStart[t]

\* a run with resetTables has emptied and filled two tables and left alone a
\* third, which held rows and is not in the copy order
C19_Witness ==
    /\ pc = "done" /\ err = "" /\ resetTables
    /\ Len(sorted) = 2 /\ Len(devLog) = 4
    /\ \E t \in Tables \ Range(sorted) : devStart[t] # {} /\ devDB[t] = devStart[t]

\* C20: in every state of the closure loop the queue holds no table twice and
\* the enqueued mark of a table is true exactly when the table is in the queue;
\* the loop starts with a queue that holds exactly the requested tables.
C20_QueueMatchesMarks ==
    /\ [](pc \in {"bfs", "edges"} =>
            /\ \A i, j \in DOMAIN queue : queue[i] = queue[j] => i = j
            /\ \A t \in DOMAIN enqueued : enqueued[t] <=> t \in Range(queue)
            /\ Range(queue) \subseteq DOMAIN enqueued)
    /\ [][pc = "seed" /\ pc' = "bfs" =>
            /\ Range(queue') = DOMAIN requestedTables
            /\ Len(queue') = Cardinality(DOMAIN requestedTables)]_vars

\* a requested table has left the queue, and the queue holds two tables, one of
\* which was not requested
C20_Witness ==
    /\ pc \in {"bfs", "edges"}
    /\ Len(queue) >= 2
    /\ \E i \in DOMAIN queue : queue[i] \notin DOMAIN requestedTables
    /\ \E t \in DOMAIN requestedTables : ~enqueued[t]

====
